---- MODULE Spec2Model ----
(***************************************************************************)
(* Model of the ACV management portal's server: the express routes and    *)
(* the MySQLStorage record store (tickets, reports, users).                *)
(*                                                                         *)
(* Values.  A JavaScript / SQL value is a tagged tuple:                    *)
(*   <<"undefined">>   a key missing from a request body or filter         *)
(*   <<"null">>        JSON null, SQL NULL                                 *)
(*   <<"str", s>>      a string, s a sequence of one-character strings     *)
(*   <<"date", n>>     a 'YYYY-MM-DD' string / DATE, n = YYYY*10000+MM*100+DD *)
(*   <<"num", n>>      a JSON number                                       *)
(***************************************************************************)
EXTENDS Integers, Sequences, FiniteSets, TLC

VARIABLES
    tickets,        \* table tickets: id -> row
    nextTicketId,   \* AUTO_INCREMENT of tickets.id
    reports,        \* table reports: id -> row
    nextReportId,   \* AUTO_INCREMENT of reports.id
    year,           \* new Date().getFullYear() of the server clock
    session,        \* req.session.user of the one browser session
    resp,           \* HTTP status of the last answered request (0: none yet)
    issued,         \* history: the ticket numbers createTicket assigned, in order
    last,           \* history: the last storage operation that ran
    pc,             \* per in-flight createTicket call: its position
    cnt,            \* per call: local `count` (COUNT(*) + 1)
    yr,             \* per call: local `year`
    arg,            \* per call: parameter `ticket`
    newId,          \* per call: result[0].insertId
    seen,           \* history, per call: ids of the rows its COUNT(*) counted
    overlap,        \* history, per call: calls that had counted, not inserted, when it counted
    result,         \* last list answer: filters, collation, rows
    fmtCount,       \* a COUNT(*) value handed to the ticket-number formatter
    fmtNo,          \* the ticket number formatted from it
    authed,         \* history: userId of the latest login answered 200 that no logout followed
    client,         \* the browser: the state of the page or function under study
    storage         \* the MySQLStorage object: db, connection and each call's getDb

storeVars == <<tickets, nextTicketId, reports, nextReportId>>
callVars == <<pc, cnt, yr, arg, newId, seen, overlap>>
fmtVars == <<fmtCount, fmtNo>>
vars == <<tickets, nextTicketId, reports, nextReportId, year, session, resp,
          issued, last, pc, cnt, yr, arg, newId, seen, overlap, result,
          fmtCount, fmtNo, authed, client, storage>>

----------------------------------------------------------------------------
(* Bounds *)

MaxTickets == 2
MaxReports == 2
NumCalls == 2
FirstYear == 2024
MaxCount == 1001

LastYear == FirstYear + 1
Years == FirstYear..LastYear
TicketIds == 1..MaxTickets
ReportIds == 1..MaxReports
Calls == 1..NumCalls

----------------------------------------------------------------------------
(* Values *)

Absent == <<"undefined">>
Null == <<"null">>
Str(s) == <<"str", s>>
DateV(n) == <<"date", n>>
Num(n) == <<"num", n>>

MkDate(y, m, d) == y * 10000 + m * 100 + d
YearOf(n) == n \div 10000

\* as Truthy, taking the empty string for a value
TruthyOrEmpty(v) == v # Absent /\ v # Null /\ v # Num(0)

\* JavaScript truthiness of a value used as `x || ...` or `if (x)`
Truthy(v) == v # Absent /\ v # Null /\ v # Str(<<>>) /\ v # Num(0)

sOpen == <<"O", "p", "e", "n">>
sInProgress == <<"I", "n", " ", "P", "r", "o", "g", "r", "e", "s", "s">>
sCompleted == <<"C", "o", "m", "p", "l", "e", "t", "e", "d">>
sClosed == <<"C", "l", "o", "s", "e", "d">>
sBogus == <<"B", "o", "g", "u", "s">>
sX == <<"X">>

DigitChars == <<"0", "1", "2", "3", "4", "5", "6", "7", "8", "9">>

\* Number.prototype.toString() of a non-negative integer
RECURSIVE NumToString(_)
NumToString(n) ==
    IF n < 10 THEN <<DigitChars[n + 1]>>
    ELSE NumToString(n \div 10) \o <<DigitChars[(n % 10) + 1]>>

\* as PadStart, padding to one character less
RECURSIVE PadStartShort(_, _, _)
PadStartShort(s, len, fill) ==
    IF Len(s) >= len - 1 THEN s ELSE PadStartShort(<<fill>> \o s, len, fill)

\* String.prototype.padStart(len, fill) with a one-character fill
RECURSIVE PadStart(_, _, _)
PadStart(s, len, fill) ==
    IF Len(s) >= len THEN s ELSE PadStart(<<fill>> \o s, len, fill)

\* `TKT-${year}-${count.toString().padStart(3, '0')}`
TicketNoOf(y, count) ==
    <<"T", "K", "T", "-">> \o NumToString(y) \o <<"-">>
        \o PadStart(NumToString(count), 3, "0")

----------------------------------------------------------------------------
(* Tables *)

\* INSERT INTO users (user_id, password) VALUES ('acv01', 'acv1234@'), and a
\* second account as a further INSERT stores it
Users ==
    <<[id |-> 1, userId |-> "acv01", password |-> "acv1234@"],
      [id |-> 2, userId |-> "admin", password |-> "admin123"]>>

TicketCols == {"ticketNo", "date", "projectType", "siteName", "contactPerson",
               "ticketStatus"}
ReportCols == {"name", "date", "kmIn", "kmOut", "totalKm"}

EmptyTicket == [c \in TicketCols |-> Absent]
EmptyReport == [c \in ReportCols |-> Absent]

\* insertTicketSchema / insertReportSchema: every column optional and nullable,
\* text and date columns strings, integer columns numbers
ColumnAccepts(c, v) ==
    \/ v = Absent
    \/ v = Null
    \/ IF c \in {"kmIn", "kmOut", "totalKm"} THEN v[1] = "num"
       ELSE v[1] \in {"str", "date"}

insertTicketSchemaAccepts(body) == \A c \in TicketCols : ColumnAccepts(c, body[c])
insertReportSchemaAccepts(body) == \A c \in ReportCols : ColumnAccepts(c, body[c])

\* as InsertValues, the total computed from the two readings
InsertValuesTotalled(data) ==
    [c \in DOMAIN data |->
        IF c = "totalKm" /\ data["kmIn"][1] = "num" /\ data["kmOut"][1] = "num"
        THEN Num(data["kmOut"][2] - data["kmIn"][2])
        ELSE IF data[c] = Absent THEN Null ELSE data[c]]

\* db.insert(table).values(data): a column without a value is stored NULL
InsertValues(data) == [c \in DOMAIN data |-> IF data[c] = Absent THEN Null ELSE data[c]]

\* what a column holds of a value handed to it: a text column keeps a number
\* as its decimal numeral
ColumnValue(c, v) ==
    IF v[1] = "num" /\ c \notin {"kmIn", "kmOut", "totalKm"}
    THEN Str(NumToString(v[2]))
    ELSE v

\* db.update(table).set(partial): the keys that carry a value are assigned
UpdateSet(row, partial) ==
    [c \in DOMAIN row |->
        IF partial[c] = Absent THEN row[c] ELSE ColumnValue(c, partial[c])]

\* drizzle refuses an update without a value to set
NoValuesToSet(partial) == \A c \in DOMAIN partial : partial[c] = Absent

\* the body of a PUT reaches set() unvalidated and may name the id column
SetsId(partial) == "id" \in DOMAIN partial /\ partial["id"] # Absent
IdAfter(id, partial) == IF SetsId(partial) THEN partial["id"][2] ELSE id

\* the PRIMARY KEY refuses an id another row holds
DuplicateKey(T, id, partial) ==
    id \in DOMAIN T /\ IdAfter(id, partial) \in DOMAIN T \ {id}

\* as RowsOfYear, without the WHERE clause
RowsOfAnyYear(T, y) == DOMAIN T

\* SELECT COUNT(*) FROM tickets WHERE YEAR(date) = ?
RowsOfYear(T, y) ==
    {i \in DOMAIN T : T[i].date # Null /\ YearOf(T[i].date[2]) = y}
CountOfYear(T, y) == Cardinality(RowsOfYear(T, y))

\* as TicketStatusOrOpen, with ?? in place of ||
TicketStatusNullishOpen(ticket) ==
    IF ticket.ticketStatus \in {Absent, Null} THEN Str(sOpen) ELSE ticket.ticketStatus

\* ticketData = { ...ticket, ticketNo, ticketStatus: ticket.ticketStatus || 'Open' }
TicketStatusOrOpen(ticket) ==
    IF Truthy(ticket.ticketStatus) THEN ticket.ticketStatus ELSE Str(sOpen)

\* as TicketData, a ticket number of the body kept
TicketDataAsSent(ticket, ticketNo) ==
    [ticket EXCEPT !.ticketNo = IF Truthy(ticket.ticketNo) THEN ticket.ticketNo
                                ELSE Str(ticketNo),
                   !.ticketStatus = TicketStatusOrOpen(ticket)]

TicketData(ticket, ticketNo) ==
    [ticket EXCEPT !.ticketNo = Str(ticketNo),
                   !.ticketStatus = TicketStatusOrOpen(ticket)]

\* the rows of a table after an INSERT under a fresh AUTO_INCREMENT id
Inserted(T, id, data) ==
    [i \in DOMAIN T \cup {id} |-> IF i = id THEN InsertValues(data) ELSE T[i]]

\* as Updated, every column taken from the partial
Replaced(T, id, partial) ==
    [i \in DOMAIN T |->
        IF i = id THEN [c \in DOMAIN T[i] |-> IF partial[c] = Absent THEN Null ELSE partial[c]]
        ELSE T[i]]

\* the rows after UPDATE ... WHERE id = ?
Updated(T, id, partial) ==
    IF id \notin DOMAIN T THEN T
    ELSE [i \in (DOMAIN T \ {id}) \cup {IdAfter(id, partial)} |->
             IF i = IdAfter(id, partial) THEN UpdateSet(T[id], partial) ELSE T[i]]

\* as Deleted, no row removed
DeletedNone(T, id) == T

\* the rows after DELETE ... WHERE id = ?
Deleted(T, id) == [i \in DOMAIN T \ {id} |-> T[i]]

----------------------------------------------------------------------------
(* Request inputs *)

DateOld == MkDate(FirstYear, 12, 31)
DateNew == MkDate(LastYear, 6, 15)

\* bodies of POST /api/tickets and PUT /api/tickets/:id that vary the date
\* and the ticket number
CreateBodies == {[EmptyTicket EXCEPT !.date = d] : d \in {Absent, DateV(DateOld)}}
UpdateBodies ==
    {EmptyTicket,
     [EmptyTicket EXCEPT !.ticketNo = Str(sX)],
     [EmptyTicket EXCEPT !.date = DateV(DateNew)]}

\* bodies that vary the status
StatusCreateBodies ==
    {[EmptyTicket EXCEPT !.ticketStatus = s] :
        s \in {Absent, Null, Str(<<>>), Str(sClosed), Str(sBogus), Num(5)}}
StatusUpdateBodies ==
    {[EmptyTicket EXCEPT !.ticketStatus = s] : s \in {Null, Str(sBogus)}}

UserIds == {"", "acv01", "nobody"}
Passwords == {"", "acv1234@", "wrong"}

----------------------------------------------------------------------------
(* Initial state *)

NoSession == <<>>
NoResult == [kind |-> "none", filters |-> <<>>, ci |-> FALSE, rows |-> <<>>]
NoOp == [op |-> "none"]
NoClient == [kind |-> "none"]

\* private db = null; private connection = null; no connection created, no
\* call holding the answer of getDb
NoStorage ==
    [db |-> 0, connection |-> 0, created |-> 0,
     creating |-> [c \in Calls |-> 0], got |-> [c \in Calls |-> 0]]

InitCalls ==
    /\ pc = [c \in Calls |-> "idle"]
    /\ cnt = [c \in Calls |-> 0]
    /\ yr = [c \in Calls |-> 0]
    /\ arg = [c \in Calls |-> EmptyTicket]
    /\ newId = [c \in Calls |-> 0]
    /\ seen = [c \in Calls |-> {}]
    /\ overlap = [c \in Calls |-> {}]

InitStore ==
    /\ tickets = <<>>
    /\ nextTicketId = 1
    /\ reports = <<>>
    /\ nextReportId = 1

Init ==
    /\ InitStore
    /\ InitCalls
    /\ year = FirstYear
    /\ session = NoSession
    /\ resp = 0
    /\ issued = <<>>
    /\ last = NoOp
    /\ result = NoResult
    /\ fmtCount = 0
    /\ fmtNo = <<>>
    /\ authed = <<>>
    /\ client = NoClient
    /\ storage = NoStorage

----------------------------------------------------------------------------
(* Session routes *)

\* as getUserByUserId, without the WHERE clause
getFirstUser(userId) == <<Users[1]>>

\* storage.getUserByUserId: result[0] || undefined
getUserByUserId(userId) ==
    LET hits == SelectSeq(Users, LAMBDA u : u.userId = userId)
    IN  IF hits = <<>> THEN <<>> ELSE <<hits[1]>>

\* POST /api/login
Login(userId, password) ==
    /\ IF userId = "" \/ password = ""
       THEN resp' = 400 /\ session' = session
       ELSE LET user == getUserByUserId(userId)
            IN  IF user = <<>> \/ user[1].password # password
                THEN resp' = 401 /\ session' = session
                ELSE /\ session' = <<[id |-> user[1].id, userId |-> user[1].userId]>>
                     /\ resp' = 200
    /\ authed' = IF resp' = 200 THEN <<userId>> ELSE authed
    /\ UNCHANGED <<storeVars, year, issued, last, callVars, result, fmtVars, client, storage>>

\* as Logout, the session left as it is
LogoutKeepingUser ==
    /\ session' = session
    /\ resp' = 200
    /\ authed' = <<>>
    /\ UNCHANGED <<storeVars, year, issued, last, callVars, result, fmtVars, client, storage>>

\* POST /api/logout
Logout ==
    /\ session' = NoSession
    /\ resp' = 200
    /\ authed' = <<>>
    /\ UNCHANGED <<storeVars, year, issued, last, callVars, result, fmtVars, client, storage>>

\* GET /api/auth/status
AuthStatus ==
    /\ result' = [kind |-> "auth", authenticated |-> session # NoSession, user |-> session]
    /\ resp' = 200
    /\ UNCHANGED <<storeVars, year, session, issued, last, callVars, fmtVars, authed, client, storage>>

\* requireAuth answers 401 and the handler does not run
Unauthenticated ==
    /\ session = NoSession
    /\ resp' = 401
    /\ UNCHANGED <<storeVars, year, session, issued, last, callVars, result, fmtVars, authed, client, storage>>

\* the server clock passes into the next calendar year
NewYear ==
    /\ year < LastYear
    /\ year' = year + 1
    /\ UNCHANGED <<storeVars, session, resp, issued, last, callVars, result, fmtVars, authed, client, storage>>

----------------------------------------------------------------------------
(* Ticket routes, each storage call running alone *)

\* storage.createTicket, run without interleaving: the row it inserts
NewTicketRow(T, y, ticket) ==
    InsertValues(TicketData(ticket, TicketNoOf(y, CountOfYear(T, y) + 1)))

\* POST /api/tickets -> storage.createTicket
PostTicket(body) ==
    /\ session # NoSession
    /\ nextTicketId <= MaxTickets
    /\ IF ~insertTicketSchemaAccepts(body)
       THEN /\ resp' = 400
            /\ UNCHANGED <<tickets, nextTicketId, issued, last>>
       ELSE LET id == nextTicketId
                row == NewTicketRow(tickets, year, body)
            IN  /\ tickets' = Inserted(tickets, id, row)
                /\ nextTicketId' = id + 1
                /\ issued' = Append(issued, [year |-> year, ticketNo |-> row.ticketNo])
                /\ last' = [op |-> "create", year |-> year, ticket |-> body,
                            before |-> RowsOfYear(tickets, year),
                            id |-> id, row |-> tickets'[id],
                            prior |-> IF last.op = "create" THEN <<last>> ELSE <<>>]
                /\ resp' = 201
    /\ UNCHANGED <<reports, nextReportId, year, session, callVars, result, fmtVars, authed, client, storage>>

\* PUT /api/tickets/:id -> storage.updateTicket
PutTicket(id, body) ==
    /\ session # NoSession
    /\ IF NoValuesToSet(body) \/ DuplicateKey(tickets, id, body)
       THEN resp' = 500 /\ UNCHANGED <<tickets, last>>
       ELSE /\ tickets' = Updated(tickets, id, body)
            /\ last' = [op |-> "update", id |-> id, partial |-> body]
            /\ resp' = IF id \in DOMAIN tickets' THEN 200 ELSE 404
    /\ UNCHANGED <<nextTicketId, reports, nextReportId, year, session, issued,
                   callVars, result, fmtVars, authed, client, storage>>

\* as DeleteTicket, registered without requireAuth
DeleteTicketOpen(id) ==
    /\ tickets' = Deleted(tickets, id)
    /\ last' = [op |-> "delete", id |-> id]
    /\ resp' = IF id \in DOMAIN tickets THEN 200 ELSE 404
    /\ UNCHANGED <<nextTicketId, reports, nextReportId, year, session, issued,
                   callVars, result, fmtVars, authed, client, storage>>

\* DELETE /api/tickets/:id -> storage.deleteTicket
DeleteTicket(id) ==
    /\ session # NoSession
    /\ tickets' = Deleted(tickets, id)
    /\ last' = [op |-> "delete", id |-> id]
    /\ resp' = IF id \in DOMAIN tickets THEN 200 ELSE 404
    /\ UNCHANGED <<nextTicketId, reports, nextReportId, year, session, issued,
                   callVars, result, fmtVars, authed, client, storage>>

\* GET /api/tickets/:id -> storage.getTicketById
GetTicket(id) ==
    /\ session # NoSession
    /\ resp' = IF id \in DOMAIN tickets THEN 200 ELSE 404
    /\ UNCHANGED <<storeVars, year, session, issued, last, callVars, result, fmtVars, authed, client, storage>>

Next ==
    \/ \E u \in UserIds, p \in Passwords : Login(u, p)
    \/ Logout
    \/ Unauthenticated
    \/ NewYear
    \/ \E body \in CreateBodies : PostTicket(body)
    \/ \E id \in TicketIds, body \in UpdateBodies : PutTicket(id, body)
    \/ \E id \in TicketIds : DeleteTicket(id)

Spec == Init /\ [][Next]_vars

\* the same routes, driven with bodies that vary the ticket status
NextStatus ==
    \/ \E u \in UserIds, p \in Passwords : Login(u, p)
    \/ Logout
    \/ Unauthenticated
    \/ NewYear
    \/ \E body \in StatusCreateBodies : PostTicket(body)
    \/ \E id \in TicketIds, body \in StatusUpdateBodies : PutTicket(id, body)
    \/ \E id \in TicketIds : DeleteTicket(id)

SpecStatus == Init /\ [][NextStatus]_vars

----------------------------------------------------------------------------
(* Ticket numbering and ticket status *)

\* the ticket number as the claims spell it: TKT-<Y>-<N>, N written with
\* three decimal digits
ThreeDigits(n) ==
    <<DigitChars[(n \div 100) + 1], DigitChars[((n \div 10) % 10) + 1],
      DigitChars[(n % 10) + 1]>>
FourDigits(n) == <<DigitChars[(n \div 1000) + 1]>> \o ThreeDigits(n % 1000)
ExpectedTicketNo(y, n) ==
    Str(<<"T", "K", "T", "-">> \o FourDigits(y) \o <<"-">> \o ThreeDigits(n))

\* the sequence number read back from a stored ticket number
DigitValue(c) == CHOOSE d \in 0..9 : DigitChars[d + 1] = c
RECURSIVE DigitsValue(_)
DigitsValue(ds) ==
    IF ds = <<>> THEN 0
    ELSE 10 * DigitsValue(SubSeq(ds, 1, Len(ds) - 1)) + DigitValue(ds[Len(ds)])
SequenceNumber(ticketNo) == DigitsValue(SubSeq(ticketNo[2], 10, Len(ticketNo[2])))

\* C1: no two stored tickets have the same ticket number.
C1_UniqueTicketNo ==
    \A i, j \in DOMAIN tickets :
        i # j => tickets[i].ticketNo # tickets[j].ticketNo

\* C2: of two createTicket calls in the same calendar year, the later one is
\* assigned the strictly greater sequence number.
C2_StrictlyIncreasing ==
    \A i, j \in DOMAIN issued :
        (i < j /\ issued[i].year = issued[j].year)
            => SequenceNumber(issued[i].ticketNo) < SequenceNumber(issued[j].ticketNo)

\* C3: no step changes the ticket number of a ticket that stays stored.
C3_TicketNoImmutable ==
    [][\A i \in DOMAIN tickets \cap DOMAIN tickets' :
            tickets'[i].ticketNo = tickets[i].ticketNo]_vars

\* C4, first part: createTicket assigns TKT-<Y>-<N>, Y the current year and N
\* one plus the number of stored tickets dated in year Y, in three digits.
C4_NumberFromCount ==
    last.op = "create" =>
        /\ tickets[last.id].ticketNo =
               ExpectedTicketNo(last.year, Cardinality(last.before) + 1)
        /\ last.before = {i \in DOMAIN tickets \ {last.id} :
                              /\ tickets[i].date # Null
                              /\ YearOf(tickets[i].date[2]) = last.year}

\* two createTicket calls with no storage operation between them, the first
\* one starting with no ticket dated in year Y
TwoCreatesFromNone ==
    /\ last.op = "create"
    /\ last.prior # <<>>
    /\ last.prior[1].year = last.year
    /\ last.prior[1].before = {}

FirstDatedInYear ==
    /\ last.prior[1].row.date # Null
    /\ YearOf(last.prior[1].row.date[2]) = last.year

GotOneThenTwo ==
    /\ last.prior[1].row.ticketNo = ExpectedTicketNo(last.year, 1)
    /\ last.row.ticketNo = ExpectedTicketNo(last.year, 2)

GotOneTwice ==
    /\ last.prior[1].row.ticketNo = ExpectedTicketNo(last.year, 1)
    /\ last.row.ticketNo = ExpectedTicketNo(last.year, 1)

C7_StatusDefault ==
    last.op = "create" =>
        tickets[last.id].ticketStatus =
            IF last.ticket.ticketStatus \in {Absent, Null, Str(<<>>)}
            THEN Str(sOpen)
            ELSE last.ticket.ticketStatus

C7_Witness ==
    /\ last.op = "create"
    /\ last.ticket.ticketStatus = Str(<<>>)
    /\ tickets[last.id].ticketStatus = Str(sOpen)

\* C8: the status of every stored ticket is one of Open, In Progress,
\* Completed, Closed.
C8_StatusInSet ==
    \A i \in DOMAIN tickets :
        tickets[i].ticketStatus \in
            {Str(sOpen), Str(sInProgress), Str(sCompleted), Str(sClosed)}

----------------------------------------------------------------------------
(* The ticket number formatter on its own *)

InitFormat ==
    /\ InitStore
    /\ InitCalls
    /\ year \in Years
    /\ session = NoSession
    /\ resp = 0
    /\ issued = <<>>
    /\ last = NoOp
    /\ result = NoResult
    /\ fmtCount \in 0..MaxCount
    /\ fmtNo = <<>>
    /\ authed = <<>>
    /\ client = NoClient
    /\ storage = NoStorage

\* createTicket's lines from the COUNT(*) result to ticketNo
FormatTicketNo ==
    /\ fmtNo = <<>>
    /\ fmtNo' = TicketNoOf(year, fmtCount + 1)
    /\ UNCHANGED <<storeVars, year, session, resp, issued, last, callVars, result,
                   fmtCount, authed, client, storage>>

NextFormat == FormatTicketNo

SpecFormat == InitFormat /\ [][NextFormat]_vars

IsDigits(s) == \A i \in DOMAIN s : \E d \in 0..9 : s[i] = DigitChars[d + 1]

\* TKT-<4-digit year>-<sequence>
HasTicketNoForm(no) ==
    /\ Len(no) > 9
    /\ SubSeq(no, 1, 4) = <<"T", "K", "T", "-">>
    /\ IsDigits(SubSeq(no, 5, 8))
    /\ DigitsValue(SubSeq(no, 5, 8)) = year
    /\ no[9] = "-"
    /\ IsDigits(SubSeq(no, 10, Len(no)))

\* C6 as stated: every assigned ticket number is TKT-<4-digit year>-<sequence>
\* with a sequence part of exactly three digits, however many tickets exist.
C6_ExactlyThreeDigits ==
    fmtNo # <<>> => HasTicketNoForm(fmtNo) /\ Len(fmtNo) = 12

\* C6 amended: every assigned ticket number is TKT-<4-digit year>-<sequence>,
\* the sequence part being the decimal numeral of one plus the count, of
\* exactly three digits while fewer than 999 tickets exist in that year and
\* of more than three digits from 999 existing tickets on.
C6_Amended ==
    fmtNo # <<>> =>
        /\ HasTicketNoForm(fmtNo)
        /\ DigitsValue(SubSeq(fmtNo, 10, Len(fmtNo))) = fmtCount + 1
        /\ fmtCount < 999 => Len(fmtNo) = 12
        /\ fmtCount >= 999 => Len(fmtNo) > 12

C6_Witness ==
    /\ fmtCount = 999
    /\ fmtNo = <<"T", "K", "T", "-">> \o FourDigits(year) \o <<"-", "1", "0", "0", "0">>

----------------------------------------------------------------------------
(* createTicket calls in flight together: each await is a step *)

LoggedIn == <<[id |-> Users[1].id, userId |-> Users[1].userId]>>

InitRace ==
    /\ InitStore
    /\ InitCalls
    /\ year = FirstYear
    /\ session = LoggedIn
    /\ resp = 0
    /\ issued = <<>>
    /\ last = NoOp
    /\ result = NoResult
    /\ fmtCount = 0
    /\ fmtNo = <<>>
    /\ authed = <<Users[1].userId>>
    /\ client = NoClient
    /\ storage = NoStorage

\* as TicketNoAtInsert, counting again when the row is inserted
TicketNoRecounted(c) == TicketNoOf(yr[c], CountOfYear(tickets, yr[c]) + 1)

\* the ticketNo a call in flight has built from its locals year and count
TicketNoAtInsert(c) == TicketNoOf(yr[c], cnt[c])

\* POST /api/tickets up to the answer of SELECT COUNT(*)
CountTickets(c, body) ==
    /\ pc[c] = "idle"
    /\ session # NoSession
    /\ insertTicketSchemaAccepts(body)
    /\ nextTicketId + Cardinality({d \in Calls : pc[d] = "insert"}) <= MaxTickets
    /\ arg' = [arg EXCEPT ![c] = body]
    /\ yr' = [yr EXCEPT ![c] = year]
    /\ cnt' = [cnt EXCEPT ![c] = CountOfYear(tickets, year) + 1]
    /\ seen' = [seen EXCEPT ![c] = RowsOfYear(tickets, year)]
    /\ overlap' = [overlap EXCEPT ![c] = {d \in Calls : pc[d] = "insert"}]
    /\ pc' = [pc EXCEPT ![c] = "insert"]
    /\ UNCHANGED <<storeVars, year, session, resp, issued, last, newId, result,
                   fmtVars, authed, client, storage>>

\* createTicket from the COUNT(*) answer to the answer of the INSERT
InsertTicket(c) ==
    /\ pc[c] = "insert"
    /\ tickets' = Inserted(tickets, nextTicketId, TicketData(arg[c], TicketNoAtInsert(c)))
    /\ newId' = [newId EXCEPT ![c] = nextTicketId]
    /\ nextTicketId' = nextTicketId + 1
    /\ pc' = [pc EXCEPT ![c] = "readback"]
    /\ UNCHANGED <<reports, nextReportId, year, session, resp, issued, last,
                   cnt, yr, arg, seen, overlap, result, fmtVars, authed, client, storage>>

\* createTicket's getTicketById(insertId) and the 201 answer; the call's
\* locals go out of scope
ReadBack(c) ==
    /\ pc[c] = "readback"
    /\ pc' = [pc EXCEPT ![c] = "idle"]
    /\ cnt' = [cnt EXCEPT ![c] = 0]
    /\ yr' = [yr EXCEPT ![c] = 0]
    /\ arg' = [arg EXCEPT ![c] = EmptyTicket]
    /\ newId' = [newId EXCEPT ![c] = 0]
    /\ seen' = [seen EXCEPT ![c] = {}]
    /\ overlap' = [overlap EXCEPT ![c] = {}]
    /\ resp' = 201
    /\ UNCHANGED <<storeVars, year, session, issued, last, result, fmtVars, authed, client, storage>>

NextRace ==
    \/ \E c \in Calls, body \in CreateBodies : CountTickets(c, body)
    \/ \E c \in Calls : InsertTicket(c)
    \/ \E c \in Calls : ReadBack(c)
    \/ \E id \in TicketIds : DeleteTicket(id)
    \/ NewYear

SpecRace == InitRace /\ [][NextRace]_vars

\* two calls for the same year that both counted the same stored tickets, the
\* second while the first had not inserted yet, and that have both inserted
Raced(c, d) ==
    /\ c # d
    /\ pc[c] = "readback" /\ pc[d] = "readback"
    /\ d \in overlap[c]
    /\ yr[c] = yr[d]
    /\ seen[c] = seen[d]

\* C5: when two createTicket calls for the same year both count before either
\* inserts, both inserts succeed and the two rows carry the same ticket number.
C5_RaceDuplicates ==
    \A c, d \in Calls :
        Raced(c, d) =>
            /\ newId[c] # newId[d]
            /\ newId[c] # 0 /\ newId[d] # 0
            /\ (newId[c] \in DOMAIN tickets /\ newId[d] \in DOMAIN tickets)
                   => tickets[newId[c]].ticketNo = tickets[newId[d]].ticketNo

C5_Witness ==
    \E c, d \in Calls :
        /\ Raced(c, d)
        /\ {newId[c], newId[d]} \subseteq DOMAIN tickets
        /\ newId[c] # newId[d]
        /\ tickets[newId[c]].ticketNo = tickets[newId[d]].ticketNo
        /\ tickets[newId[c]].date # Null

----------------------------------------------------------------------------
(* List queries *)

UpperCase == <<"A", "B", "C", "D", "E", "F", "G", "H", "I", "J", "K", "L", "M",
               "N", "O", "P", "Q", "R", "S", "T", "U", "V", "W", "X", "Y", "Z">>
LowerCase == <<"a", "b", "c", "d", "e", "f", "g", "h", "i", "j", "k", "l", "m",
               "n", "o", "p", "q", "r", "s", "t", "u", "v", "w", "x", "y", "z">>

\* the weight of a character under the columns' collation: a case-insensitive
\* collation (ci, the MySQL default) gives a letter and its capital one weight
FoldChar(ch, ci) ==
    IF ci /\ \E i \in DOMAIN UpperCase : UpperCase[i] = ch
    THEN LowerCase[CHOOSE i \in DOMAIN UpperCase : UpperCase[i] = ch]
    ELSE ch

\* SQL `s LIKE p`: % stands for any run of characters, _ for any one character
RECURSIVE Like(_, _, _)
Like(s, p, ci) ==
    IF p = <<>> THEN s = <<>>
    ELSE IF Head(p) = "%"
         THEN Like(s, Tail(p), ci) \/ (s # <<>> /\ Like(Tail(s), p, ci))
         ELSE /\ s # <<>>
              /\ Head(p) = "_" \/ FoldChar(Head(s), ci) = FoldChar(Head(p), ci)
              /\ Like(Tail(s), Tail(p), ci)

\* like(column, `%${search}%`); NULL is like nothing
ColumnLike(v, search, ci) ==
    v # Null /\ Like(v[2], <<"%">> \o search[2] \o <<"%">>, ci)

\* eq(column, value) on a text column; NULL equals nothing
ColumnEq(v, w, ci) ==
    /\ v # Null
    /\ Len(v[2]) = Len(w[2])
    /\ \A i \in DOMAIN v[2] : FoldChar(v[2][i], ci) = FoldChar(w[2][i], ci)

\* gte(reports.date, fromDate), lte(reports.date, toDate)
ColumnGte(v, w) == v # Null /\ v[2] >= w[2]
ColumnLte(v, w) == v # Null /\ v[2] <= w[2]

\* getTickets: the WHERE condition built from the filters
TicketCondition(row, filters, ci) ==
    /\ Truthy(filters.search) =>
           \/ ColumnLike(row.ticketNo, filters.search, ci)
           \/ ColumnLike(row.siteName, filters.search, ci)
           \/ ColumnLike(row.contactPerson, filters.search, ci)
    /\ Truthy(filters.status) => ColumnEq(row.ticketStatus, filters.status, ci)
    /\ Truthy(filters.projectType) => ColumnEq(row.projectType, filters.projectType, ci)

\* getReports: the WHERE condition built from the filters
ReportCondition(row, filters, ci) ==
    /\ Truthy(filters.search) => ColumnLike(row.name, filters.search, ci)
    /\ Truthy(filters.fromDate) => ColumnGte(row.date, filters.fromDate)
    /\ Truthy(filters.toDate) => ColumnLte(row.date, filters.toDate)

\* as OrderByDateDesc, without the ORDER BY: the rows in any order
InAnyOrder(T, ids) ==
    {[k \in 1..Cardinality(ids) |-> [id |-> f[k], row |-> T[f[k]]]] :
        f \in {g \in [1..Cardinality(ids) -> ids] :
                 \A a, b \in DOMAIN g : a # b => g[a] # g[b]}}

\* ORDER BY date DESC: NULL dates sort last, rows of one date in any order
DateKey(row) == IF row.date = Null THEN 0 ELSE row.date[2]
OrderByDateDesc(T, ids) ==
    {[k \in 1..Cardinality(ids) |-> [id |-> f[k], row |-> T[f[k]]]] :
        f \in {g \in [1..Cardinality(ids) -> ids] :
                 /\ \A a, b \in DOMAIN g : a # b => g[a] # g[b]
                 /\ \A a, b \in DOMAIN g :
                        a < b => DateKey(T[g[a]]) >= DateKey(T[g[b]])}}

\* GET /api/tickets -> storage.getTickets(filters)
GetTickets(filters, ci) ==
    /\ session # NoSession
    /\ result = NoResult
    /\ \E rows \in OrderByDateDesc(tickets,
                      {i \in DOMAIN tickets : TicketCondition(tickets[i], filters, ci)}) :
           result' = [kind |-> "tickets", filters |-> filters, ci |-> ci, rows |-> rows]
    /\ resp' = 200
    /\ UNCHANGED <<storeVars, year, session, issued, last, callVars, fmtVars, authed, client, storage>>

\* GET /api/reports -> storage.getReports(filters)
GetReports(filters, ci) ==
    /\ session # NoSession
    /\ result = NoResult
    /\ \E rows \in OrderByDateDesc(reports,
                      {i \in DOMAIN reports : ReportCondition(reports[i], filters, ci)}) :
           result' = [kind |-> "reports", filters |-> filters, ci |-> ci, rows |-> rows]
    /\ resp' = 200
    /\ UNCHANGED <<storeVars, year, session, issued, last, callVars, fmtVars, authed, client, storage>>

NoFilters == [search |-> Absent, status |-> Absent, projectType |-> Absent]
NoReportFilters == [search |-> Absent, fromDate |-> Absent, toDate |-> Absent]

\* GET /api/tickets/export/excel -> storage.getTickets() without a filters object
ExportTickets(ci) == GetTickets(NoFilters, ci)

\* GET /api/reports/export/excel -> storage.getReports() without a filters object
ExportReports(ci) == GetReports(NoReportFilters, ci)

(* Stored rows and filters the queries are tried on *)

DateMid == MkDate(LastYear, 1, 1)

sAb == <<"a", "b">>
sCapA == <<"A">>
sIT == <<"I", "T">>
sOpenLower == <<"o", "p", "e", "n">>

SampleTickets ==
    {[ticketNo |-> Str(TicketNoOf(FirstYear, 1)), date |-> DateV(DateOld),
      projectType |-> Str(sIT), siteName |-> Str(sAb), contactPerson |-> Null,
      ticketStatus |-> Str(sOpen)],
     [ticketNo |-> Str(TicketNoOf(LastYear, 1)), date |-> DateV(DateNew),
      projectType |-> Null, siteName |-> Null, contactPerson |-> Str(sCapA),
      ticketStatus |-> Str(sClosed)],
     [ticketNo |-> Str(sX), date |-> Null,
      projectType |-> Str(sIT), siteName |-> Str(<<>>), contactPerson |-> Str(sAb),
      ticketStatus |-> Str(sOpenLower)]}

SampleReports ==
    {[name |-> Str(sAb), date |-> DateV(DateOld), kmIn |-> Num(100),
      kmOut |-> Num(175), totalKm |-> Num(0)],
     [name |-> Str(sCapA), date |-> DateV(DateMid), kmIn |-> Null,
      kmOut |-> Null, totalKm |-> Null],
     [name |-> Null, date |-> Null, kmIn |-> Null, kmOut |-> Null,
      totalKm |-> Null]}

Tables(ids, rows) == UNION {[1..n -> rows] : n \in 0..Cardinality(ids)}

TicketFilters ==
    [search : {Absent, Str(<<>>), Str(<<"a">>), Str(<<"_">>), Str(<<"2">>)},
     status : {Absent, Str(<<>>), Str(sOpen)},
     projectType : {Absent, Str(sIT)}]

ReportFilters ==
    [search : {Absent, Str(<<>>), Str(<<"a">>), Str(<<"%">>)},
     fromDate : {Absent, Str(<<>>), DateV(DateMid)},
     toDate : {Absent, DateV(DateMid)}]

InitQuery ==
    /\ tickets \in Tables(TicketIds, SampleTickets)
    /\ nextTicketId = Len(tickets) + 1
    /\ reports \in Tables(ReportIds, SampleReports)
    /\ nextReportId = Len(reports) + 1
    /\ InitCalls
    /\ year = LastYear
    /\ session = LoggedIn
    /\ resp = 0
    /\ issued = <<>>
    /\ last = NoOp
    /\ result = NoResult
    /\ fmtCount = 0
    /\ fmtNo = <<>>
    /\ authed = <<Users[1].userId>>
    /\ client = NoClient
    /\ storage = NoStorage

NextQuery ==
    \/ \E filters \in TicketFilters, ci \in BOOLEAN : GetTickets(filters, ci)
    \/ \E filters \in ReportFilters, ci \in BOOLEAN : GetReports(filters, ci)
    \/ \E ci \in BOOLEAN : ExportTickets(ci)
    \/ \E ci \in BOOLEAN : ExportReports(ci)

SpecQuery == InitQuery /\ [][NextQuery]_vars

\* the search text occurs in s as it stands, character for character under
\* the collation in force
Contains(s, sub, ci) ==
    \E k \in 0..(Len(s) - Len(sub)) :
        \A i \in 1..Len(sub) : FoldChar(s[k + i], ci) = FoldChar(sub[i], ci)

HasText(v, search, ci) == v # Null /\ Contains(v[2], search[2], ci)

ReturnedIds == {result.rows[k].id : k \in DOMAIN result.rows}

\* C9: getTickets returns exactly the stored tickets that have the search
\* text as a literal substring of ticket number, site name or contact person,
\* and the status and the project type of the filters.
C9_TicketsExactlyMatching ==
    result.kind = "tickets" =>
        ReturnedIds =
            {i \in DOMAIN tickets :
                /\ Truthy(result.filters.search) =>
                       \/ HasText(tickets[i].ticketNo, result.filters.search, result.ci)
                       \/ HasText(tickets[i].siteName, result.filters.search, result.ci)
                       \/ HasText(tickets[i].contactPerson, result.filters.search, result.ci)
                /\ Truthy(result.filters.status) =>
                       ColumnEq(tickets[i].ticketStatus, result.filters.status, result.ci)
                /\ Truthy(result.filters.projectType) =>
                       ColumnEq(tickets[i].projectType, result.filters.projectType, result.ci)}

\* C10: getReports returns exactly the stored reports whose staff name
\* contains the search text and whose date lies within fromDate..toDate,
\* both bounds inclusive, a missing bound not constraining.
C10_ReportsExactlyMatching ==
    result.kind = "reports" =>
        ReturnedIds =
            {i \in DOMAIN reports :
                /\ Truthy(result.filters.search) =>
                       HasText(reports[i].name, result.filters.search, result.ci)
                /\ Truthy(result.filters.fromDate) =>
                       /\ reports[i].date # Null
                       /\ reports[i].date[2] >= result.filters.fromDate[2]
                /\ Truthy(result.filters.toDate) =>
                       /\ reports[i].date # Null
                       /\ reports[i].date[2] <= result.filters.toDate[2]}

----------------------------------------------------------------------------
(* Report routes *)

\* POST /api/reports -> storage.createReport
PostReport(body) ==
    /\ session # NoSession
    /\ nextReportId <= MaxReports
    /\ IF ~insertReportSchemaAccepts(body)
       THEN /\ resp' = 400
            /\ UNCHANGED <<reports, nextReportId, last>>
       ELSE LET id == nextReportId
            IN  /\ reports' = Inserted(reports, id, body)
                /\ nextReportId' = id + 1
                /\ last' = [op |-> "createReport", report |-> body,
                            before |-> DOMAIN reports, id |-> id, row |-> reports'[id]]
                /\ resp' = 201
    /\ UNCHANGED <<tickets, nextTicketId, year, session, issued, callVars, result,
                   fmtVars, authed, client, storage>>

\* GET /api/reports/:id -> storage.getReportById
GetReport(id) ==
    /\ session # NoSession
    /\ resp' = IF id \in DOMAIN reports THEN 200 ELSE 404
    /\ UNCHANGED <<storeVars, year, session, issued, last, callVars, result, fmtVars, authed, client, storage>>

\* PUT /api/reports/:id -> storage.updateReport
PutReport(id, body) ==
    /\ session # NoSession
    /\ IF NoValuesToSet(body) \/ DuplicateKey(reports, id, body)
       THEN resp' = 500 /\ UNCHANGED <<reports, last>>
       ELSE /\ reports' = Updated(reports, id, body)
            /\ last' = [op |-> "updateReport", id |-> id, partial |-> body]
            /\ resp' = IF id \in DOMAIN reports' THEN 200 ELSE 404
    /\ UNCHANGED <<tickets, nextTicketId, nextReportId, year, session, issued,
                   callVars, result, fmtVars, authed, client, storage>>

\* DELETE /api/reports/:id -> storage.deleteReport
DeleteReport(id) ==
    /\ session # NoSession
    /\ reports' = Deleted(reports, id)
    /\ last' = [op |-> "deleteReport", id |-> id]
    /\ resp' = IF id \in DOMAIN reports THEN 200 ELSE 404
    /\ UNCHANGED <<tickets, nextTicketId, nextReportId, year, session, issued,
                   callVars, result, fmtVars, authed, client, storage>>

(* Bodies the ticket and report routes are driven with together *)

WithId(body, k) ==
    [c \in DOMAIN body \cup {"id"} |-> IF c = "id" THEN Num(k) ELSE body[c]]

TicketBodies == {[EmptyTicket EXCEPT !.date = DateV(DateOld)]}
TicketPartials ==
    {EmptyTicket, [EmptyTicket EXCEPT !.siteName = Str(sAb)]}
        \cup {WithId(EmptyTicket, k) : k \in TicketIds}

ReportBodies ==
    {[EmptyReport EXCEPT !.name = Str(sAb), !.kmIn = Num(100), !.kmOut = Num(175),
                         !.totalKm = Num(0)]}
ReportPartials == {EmptyReport, [EmptyReport EXCEPT !.totalKm = Num(75)]}

\* an id moved by an UPDATE stays below AUTO_INCREMENT, so that the next
\* insert's id does not depend on the server's version
BelowAutoIncrement(partial, nextId) == SetsId(partial) => partial["id"][2] < nextId

\* a run inserts at most MaxTickets + 1 rows, tickets and reports together
RoomForARow == (nextTicketId - 1) + (nextReportId - 1) <= MaxTickets

NextCrud ==
    \/ \E p \in Passwords : Login(Users[1].userId, p)
    \/ Logout
    \/ Unauthenticated
    \/ \E body \in TicketBodies : RoomForARow /\ PostTicket(body)
    \/ \E id \in TicketIds : GetTicket(id)
    \/ \E id \in TicketIds, body \in TicketPartials :
           BelowAutoIncrement(body, nextTicketId) /\ PutTicket(id, body)
    \/ \E id \in TicketIds : DeleteTicket(id)
    \/ \E body \in ReportBodies : RoomForARow /\ PostReport(body)
    \/ \E id \in ReportIds : GetReport(id)
    \/ \E id \in ReportIds, body \in ReportPartials : PutReport(id, body)
    \/ \E id \in ReportIds : DeleteReport(id)

SpecCrud == Init /\ [][NextCrud]_vars

----------------------------------------------------------------------------
(* Order of a list answer, and filters without a value *)

\* date a is earlier than date b
DateBefore(a, b) == a # Null /\ b # Null /\ a[2] < b[2]

\* C11: in every answer of getTickets and getReports, of two adjacent records
\* the earlier one's date is not before the later one's.
C11_SortedByDateDesc ==
    result.kind \in {"tickets", "reports"} =>
        \A k \in 1..(Len(result.rows) - 1) :
            ~DateBefore(result.rows[k].row.date, result.rows[k + 1].row.date)

C11_Witness ==
    /\ result.kind = "tickets"
    /\ Len(result.rows) = 2
    /\ DateBefore(result.rows[2].row.date, result.rows[1].row.date)
    /\ result.rows[1].id > result.rows[2].id

\* a filter value that is absent or the empty string
Unset(v) == v = Absent \/ v = Str(<<>>)

\* the rows a list answer must hold when only the filters that carry a value
\* constrain it
TicketsUnderSetFilters(f, ci) ==
    {i \in DOMAIN tickets :
        /\ Unset(f.search)
           \/ ColumnLike(tickets[i].ticketNo, f.search, ci)
           \/ ColumnLike(tickets[i].siteName, f.search, ci)
           \/ ColumnLike(tickets[i].contactPerson, f.search, ci)
        /\ Unset(f.status) \/ ColumnEq(tickets[i].ticketStatus, f.status, ci)
        /\ Unset(f.projectType) \/ ColumnEq(tickets[i].projectType, f.projectType, ci)}

ReportsUnderSetFilters(f, ci) ==
    {i \in DOMAIN reports :
        /\ Unset(f.search) \/ ColumnLike(reports[i].name, f.search, ci)
        /\ Unset(f.fromDate) \/ ColumnGte(reports[i].date, f.fromDate)
        /\ Unset(f.toDate) \/ ColumnLte(reports[i].date, f.toDate)}

\* C12: an absent or empty filter value puts no constraint on a list answer:
\* with every filter absent or empty all stored records are returned, and an
\* empty filter next to non-empty ones does not narrow the answer.
C12_UnsetFiltersDoNotConstrain ==
    /\ result.kind = "tickets" =>
           /\ ReturnedIds = TicketsUnderSetFilters(result.filters, result.ci)
           /\ (\A k \in DOMAIN result.filters : Unset(result.filters[k]))
                  => ReturnedIds = DOMAIN tickets
    /\ result.kind = "reports" =>
           /\ ReturnedIds = ReportsUnderSetFilters(result.filters, result.ci)
           /\ (\A k \in DOMAIN result.filters : Unset(result.filters[k]))
                  => ReturnedIds = DOMAIN reports

C12_Witness ==
    /\ result.kind = "tickets"
    /\ result.filters.status = Str(<<>>)
    /\ result.filters.search = Str(<<>>)
    /\ result.filters.projectType = Str(sIT)
    /\ Cardinality(ReturnedIds) = 2
    /\ \E i \in ReturnedIds : tickets[i].ticketStatus # Str(<<>>)

----------------------------------------------------------------------------
(* Updates, deletes and creates by id *)

\* what an update of the stored record id may change: the columns the partial
\* names, the id itself among them; nothing else of that record, no other
\* record of the table, and nothing at all when the partial names no column
UpdateFrame(T, Tnew, id, partial) ==
    /\ \A i \in DOMAIN T \ {id} : i \in DOMAIN Tnew /\ Tnew[i] = T[i]
    /\ DOMAIN Tnew \subseteq DOMAIN T \cup {IdAfter(id, partial)}
    /\ Cardinality(DOMAIN Tnew) = Cardinality(DOMAIN T)
    /\ \A i \in DOMAIN Tnew \ (DOMAIN T \ {id}) :
           \A c \in DOMAIN T[id] : partial[c] = Absent => Tnew[i][c] = T[id][c]
    /\ ~SetsId(partial) => id \in DOMAIN Tnew
    /\ (\A c \in DOMAIN partial : partial[c] = Absent) => Tnew = T

\* C13: updateTicket and updateReport on an existing record change only the
\* fields named in the partial; every other field of that record and every
\* other record keep their values, and an empty partial changes nothing.
C13_UpdateChangesNamedFieldsOnly ==
    [][/\ \A id \in TicketIds, partial \in TicketPartials :
              (id \in DOMAIN tickets /\ PutTicket(id, partial)) =>
                  /\ UpdateFrame(tickets, tickets', id, partial)
                  /\ reports' = reports
       /\ \A id \in ReportIds, partial \in ReportPartials :
              (id \in DOMAIN reports /\ PutReport(id, partial)) =>
                  /\ UpdateFrame(reports, reports', id, partial)
                  /\ tickets' = tickets]_vars

C13_Witness ==
    /\ last.op = "update"
    /\ last.id \in DOMAIN tickets
    /\ last.partial.siteName = Str(sAb)
    /\ tickets[last.id].siteName = Str(sAb)
    /\ tickets[last.id].ticketNo # Null
    /\ \E i \in DOMAIN tickets : i # last.id /\ tickets[i].siteName = Null
    /\ reports # <<>>

\* C14: updateTicket and updateReport with an id that names no stored record
\* answer "not found" and leave tickets and reports as they were.
C14_UpdateMissingIsNotFound ==
    [][/\ \A id \in TicketIds, partial \in TicketPartials :
              (id \notin DOMAIN tickets /\ PutTicket(id, partial)) =>
                  resp' = 404 /\ UNCHANGED storeVars
       /\ \A id \in ReportIds, partial \in ReportPartials :
              (id \notin DOMAIN reports /\ PutReport(id, partial)) =>
                  resp' = 404 /\ UNCHANGED storeVars]_vars

\* C15: deleteTicket and deleteReport answer true exactly when the id was
\* stored, and then that record and no other is removed; otherwise they answer
\* false and change nothing; a second delete of the id right after the first
\* answers false, and a get of the id after the delete answers not found.
C15_DeleteExactlyStored ==
    [][/\ \A id \in TicketIds :
              /\ DeleteTicket(id) =>
                     /\ resp' = 200 <=> id \in DOMAIN tickets
                     /\ resp' # 200 => resp' = 404 /\ UNCHANGED storeVars
                     /\ DOMAIN tickets' = DOMAIN tickets \ {id}
                     /\ \A i \in DOMAIN tickets' : tickets'[i] = tickets[i]
                     /\ reports' = reports
                     /\ last = [op |-> "delete", id |-> id] => resp' = 404
              /\ (GetTicket(id) /\ last = [op |-> "delete", id |-> id]) => resp' = 404
       /\ \A id \in ReportIds :
              /\ DeleteReport(id) =>
                     /\ resp' = 200 <=> id \in DOMAIN reports
                     /\ resp' # 200 => resp' = 404 /\ UNCHANGED storeVars
                     /\ DOMAIN reports' = DOMAIN reports \ {id}
                     /\ \A i \in DOMAIN reports' : reports'[i] = reports[i]
                     /\ tickets' = tickets
                     /\ last = [op |-> "deleteReport", id |-> id] => resp' = 404
              /\ (GetReport(id) /\ last = [op |-> "deleteReport", id |-> id])
                     => resp' = 404]_vars

C15_Witness ==
    /\ last = [op |-> "delete", id |-> 1]
    /\ resp = 404
    /\ nextTicketId > 1
    /\ 1 \notin DOMAIN tickets
    /\ tickets # <<>>
    /\ reports # <<>>

C17_NoUserNoStorage ==
    [][session = NoSession =>
           /\ UNCHANGED storeVars
           /\ \/ \E u \in UserIds, p \in Passwords : Login(u, p)
              \/ Logout
              \/ resp' = 401 /\ last' = last]_vars

C17_Witness ==
    /\ session = NoSession
    /\ resp = 401
    /\ tickets # <<>>
    /\ reports # <<>>

\* C20: an authenticated GET, PUT or DELETE by id is answered 404 when the id
\* names no stored record, and never when it names one.
C20_NotFoundExactlyWhenMissing ==
    [][/\ \A id \in TicketIds :
              (\/ GetTicket(id)
               \/ DeleteTicket(id)
               \/ \E partial \in TicketPartials : PutTicket(id, partial))
                  => (resp' = 404 <=> id \notin DOMAIN tickets)
       /\ \A id \in ReportIds :
              (\/ GetReport(id)
               \/ DeleteReport(id)
               \/ \E partial \in ReportPartials : PutReport(id, partial))
                  => (resp' = 404 <=> id \notin DOMAIN reports)]_vars

----------------------------------------------------------------------------
(* One session over logins, logouts and other requests *)

AuthUserIds == UserIds \cup {"admin"}
AuthPasswords == Passwords \cup {"admin123"}

NextAuth ==
    \/ \E u \in AuthUserIds, p \in AuthPasswords : Login(u, p)
    \/ Logout
    \/ AuthStatus
    \/ Unauthenticated
    \/ \E body \in TicketBodies : PostTicket(body)
    \/ \E id \in TicketIds : GetTicket(id)
    \/ \E id \in TicketIds : DeleteTicket(id)

SpecAuth == Init /\ [][NextAuth]_vars

\* C18: GET /api/auth/status reports authenticated with user u exactly when
\* the latest successful login of the session was for u and no logout followed
\* it; after a logout every protected request is answered 401 until the next
\* successful login.
C18_StatusFollowsLoginAndLogout ==
    [][/\ AuthStatus =>
              /\ result'.authenticated <=> authed # <<>>
              /\ result'.authenticated => result'.user[1].userId = authed[1]
       /\ authed = <<>> =>
              /\ ~(\E body \in TicketBodies : PostTicket(body))
              /\ ~(\E id \in TicketIds : GetTicket(id) \/ DeleteTicket(id))
              /\ ((\E u \in AuthUserIds, p \in AuthPasswords : Login(u, p))
                    \/ Logout \/ AuthStatus \/ resp' = 401)
              /\ UNCHANGED storeVars]_vars

C18_Witness ==
    /\ result.kind = "auth"
    /\ ~result.authenticated
    /\ resp = 401
    /\ authed = <<>>
    /\ tickets # <<>>

\* a stored user has the given userId and, as its password, exactly the given one
StoredCredentials(userId, password) ==
    \E k \in DOMAIN Users : Users[k].userId = userId /\ Users[k].password = password

----------------------------------------------------------------------------
(* Bodies the insert schemas refuse *)

BadTicketBodies == {[EmptyTicket EXCEPT !.ticketStatus = Num(5)]}
BadReportBodies == {[EmptyReport EXCEPT !.name = Num(5)]}

\* bodies of POST /api/tickets that bring a ticket number of their own
NumberedTicketBodies ==
    {[EmptyTicket EXCEPT !.date = DateV(DateOld), !.ticketNo = no] :
        no \in {Str(sX), Str(TicketNoOf(FirstYear, 1)), Str(TicketNoOf(FirstYear, 7))}}

NextValidate ==
    \/ \E p \in Passwords : Login(Users[1].userId, p)
    \/ Logout
    \/ Unauthenticated
    \/ \E body \in TicketBodies \cup BadTicketBodies \cup NumberedTicketBodies :
           RoomForARow /\ PostTicket(body)
    \/ \E id \in TicketIds, body \in BadTicketBodies : PutTicket(id, body)
    \/ \E body \in ReportBodies \cup BadReportBodies : RoomForARow /\ PostReport(body)
    \/ \E id \in ReportIds, body \in BadReportBodies : PutReport(id, body)

SpecValidate == Init /\ [][NextValidate]_vars

\* C21: an authenticated POST or PUT for a ticket or a report whose body fails
\* the insert schema of that record type is answered 400 and changes no stored
\* record.
C21_InvalidBodyIs400 ==
    [][/\ \A body \in BadTicketBodies :
              /\ ~insertTicketSchemaAccepts(body)
              /\ PostTicket(body) => resp' = 400 /\ UNCHANGED storeVars
              /\ \A id \in TicketIds :
                     PutTicket(id, body) => resp' = 400 /\ UNCHANGED storeVars
       /\ \A body \in BadReportBodies :
              /\ ~insertReportSchemaAccepts(body)
              /\ PostReport(body) => resp' = 400 /\ UNCHANGED storeVars
              /\ \A id \in ReportIds :
                     PutReport(id, body) => resp' = 400 /\ UNCHANGED storeVars]_vars

\* C26: a ticketNo the client puts into the body of POST /api/tickets never
\* reaches the store: the created ticket carries the number generated from
\* the year and the count of that year's tickets.
C26_ClientTicketNoDropped ==
    [][\A body \in NumberedTicketBodies :
           (PostTicket(body) /\ resp' = 201) =>
               LET generated == Str(TicketNoOf(year, CountOfYear(tickets, year) + 1))
               IN  /\ tickets'[nextTicketId].ticketNo = generated
                   /\ body.ticketNo # generated =>
                          \A id \in DOMAIN tickets' \ DOMAIN tickets :
                              tickets'[id].ticketNo # body.ticketNo]_vars

C26_Witness ==
    /\ last.op = "create"
    /\ last.ticket \in NumberedTicketBodies
    /\ last.ticket.ticketNo = Str(TicketNoOf(FirstYear, 7))
    /\ last.row.ticketNo = Str(TicketNoOf(FirstYear, 2))

----------------------------------------------------------------------------
(* Storage operations whose database statement fails *)

\* as PostCatch, every error taken for a validation error
PostCatchAll400(error) == 400

\* the catch of a POST route: 400 for a ZodError, 500 for anything else
PostCatch(error) == IF error = "ZodError" THEN 400 ELSE 500

\* the catch of every other route
RouteCatch(error) == 500

\* what a failed storage call left behind: the error it threw and the
\* statement that failed
Failed(call, at, error) == [op |-> "failed", call |-> call, at |-> at, error |-> error]

\* GET /api/tickets, the SELECT failing
GetTicketsFailing ==
    /\ session # NoSession
    /\ last' = Failed("getTickets", "select", "Failed to retrieve tickets")
    /\ resp' = RouteCatch(last'.error)
    /\ UNCHANGED <<storeVars, year, session, issued, callVars, result, fmtVars, authed, client, storage>>

\* GET /api/tickets/:id, the SELECT failing
GetTicketFailing(id) ==
    /\ session # NoSession
    /\ last' = Failed("getTicketById", "select", "Failed to retrieve ticket")
    /\ resp' = RouteCatch(last'.error)
    /\ UNCHANGED <<storeVars, year, session, issued, callVars, result, fmtVars, authed, client, storage>>

\* POST /api/tickets, createTicket failing at its COUNT(*), at its INSERT, or
\* in getTicketById after the INSERT ran
PostTicketFailing(body, at) ==
    /\ session # NoSession
    /\ nextTicketId <= MaxTickets
    /\ insertTicketSchemaAccepts(body)
    /\ IF at = "readback"
       THEN LET row == NewTicketRow(tickets, year, body)
            IN  /\ tickets' = Inserted(tickets, nextTicketId, row)
                /\ nextTicketId' = nextTicketId + 1
                /\ issued' = Append(issued, [year |-> year, ticketNo |-> row.ticketNo])
       ELSE UNCHANGED <<tickets, nextTicketId, issued>>
    /\ last' = Failed("createTicket", at, "Failed to create ticket")
    /\ resp' = PostCatch(last'.error)
    /\ UNCHANGED <<reports, nextReportId, year, session, callVars, result, fmtVars, authed, client, storage>>

\* PUT /api/tickets/:id, updateTicket failing at its UPDATE or in
\* getTicketById after the UPDATE ran
PutTicketFailing(id, body, at) ==
    /\ session # NoSession
    /\ ~NoValuesToSet(body)
    /\ ~DuplicateKey(tickets, id, body)
    /\ tickets' = IF at = "readback" THEN Updated(tickets, id, body) ELSE tickets
    /\ last' = Failed("updateTicket", at, "Failed to update ticket")
    /\ resp' = RouteCatch(last'.error)
    /\ UNCHANGED <<nextTicketId, reports, nextReportId, year, session, issued,
                   callVars, result, fmtVars, authed, client, storage>>

\* DELETE /api/tickets/:id, the DELETE failing
DeleteTicketFailing(id) ==
    /\ session # NoSession
    /\ last' = Failed("deleteTicket", "delete", "Failed to delete ticket")
    /\ resp' = RouteCatch(last'.error)
    /\ UNCHANGED <<storeVars, year, session, issued, callVars, result, fmtVars, authed, client, storage>>

\* POST /api/reports, createReport failing at its INSERT or in getReportById
\* after the INSERT ran
PostReportFailing(body, at) ==
    /\ session # NoSession
    /\ nextReportId <= MaxReports
    /\ insertReportSchemaAccepts(body)
    /\ IF at = "readback"
       THEN /\ reports' = Inserted(reports, nextReportId, body)
            /\ nextReportId' = nextReportId + 1
       ELSE UNCHANGED <<reports, nextReportId>>
    /\ last' = Failed("createReport", at, "Failed to create report")
    /\ resp' = PostCatch(last'.error)
    /\ UNCHANGED <<tickets, nextTicketId, year, session, issued, callVars, result,
                   fmtVars, authed, client, storage>>

CreateTicketSteps == {"count", "insert", "readback"}
CreateReportSteps == {"insert", "readback"}
UpdateSteps == {"update", "readback"}
SitePartials == {[EmptyTicket EXCEPT !.siteName = Str(sAb)]}

NextFail ==
    \/ Login(Users[1].userId, Users[1].password)
    \/ \E body \in TicketBodies : RoomForARow /\ PostTicket(body)
    \/ \E body \in ReportBodies : RoomForARow /\ PostReport(body)
    \/ \E id \in TicketIds : DeleteTicket(id)
    \/ GetTicketsFailing
    \/ \E id \in TicketIds : GetTicketFailing(id)
    \/ \E body \in TicketBodies, at \in CreateTicketSteps :
           RoomForARow /\ PostTicketFailing(body, at)
    \/ \E id \in TicketIds, body \in SitePartials, at \in UpdateSteps :
           PutTicketFailing(id, body, at)
    \/ \E id \in TicketIds : DeleteTicketFailing(id)
    \/ \E body \in ReportBodies, at \in CreateReportSteps :
           RoomForARow /\ PostReportFailing(body, at)

SpecFail == Init /\ [][NextFail]_vars

\* the errors the storage layer throws for tickets and reports
GenericErrors ==
    {"Failed to create ticket", "Failed to retrieve ticket", "Failed to retrieve tickets",
     "Failed to update ticket", "Failed to delete ticket",
     "Failed to create report", "Failed to retrieve report", "Failed to retrieve reports",
     "Failed to update report", "Failed to delete report"}

\* a step in which a storage call failed
FailedStep ==
    \/ GetTicketsFailing
    \/ \E id \in TicketIds : GetTicketFailing(id) \/ DeleteTicketFailing(id)
    \/ \E body \in TicketBodies, at \in CreateTicketSteps : PostTicketFailing(body, at)
    \/ \E id \in TicketIds, body \in SitePartials, at \in UpdateSteps :
           PutTicketFailing(id, body, at)
    \/ \E body \in ReportBodies, at \in CreateReportSteps : PostReportFailing(body, at)

\* C22: when the persistence layer fails during a storage operation, the
\* operation throws its generic "Failed to ..." error and the endpoint answers
\* 500, never success, 400 or 404; the failed statement is not run again.
C22_FailureIs500 ==
    [][/\ FailedStep =>
              /\ last'.error \in GenericErrors
              /\ resp' = 500
              /\ last'.at # "readback" => UNCHANGED storeVars
       /\ \A body \in TicketBodies, at \in CreateTicketSteps :
              PostTicketFailing(body, at) => last'.error = "Failed to create ticket"
       /\ \A id \in TicketIds, body \in SitePartials, at \in UpdateSteps :
              PutTicketFailing(id, body, at) => last'.error = "Failed to update ticket"
       /\ \A id \in TicketIds :
              /\ DeleteTicketFailing(id) => last'.error = "Failed to delete ticket"
              /\ GetTicketFailing(id) => last'.error = "Failed to retrieve ticket"
       /\ GetTicketsFailing => last'.error = "Failed to retrieve tickets"]_vars

C22_Witness ==
    /\ last.op = "failed"
    /\ last.call = "createTicket"
    /\ last.at = "insert"
    /\ resp = 500
    /\ tickets # <<>>

\* C27: a create request answered with an error leaves the store unchanged,
\* also when the failure happens in the read-back after the insert.
C27_FailedCreateStoresNothing ==
    [][/\ \A body \in TicketBodies, at \in CreateTicketSteps :
              PostTicketFailing(body, at) => resp' = 500 /\ UNCHANGED storeVars
       /\ \A body \in ReportBodies, at \in CreateReportSteps :
              PostReportFailing(body, at) => resp' = 500 /\ UNCHANGED storeVars]_vars

----------------------------------------------------------------------------
(* The report form: ReportModal under the dashboard *)

NaN == <<"nan">>

\* the longest run of digits s begins with
DigitPrefix(s) ==
    SubSeq(s, 1, CHOOSE n \in 0..Len(s) :
                     /\ IsDigits(SubSeq(s, 1, n))
                     /\ n = Len(s) \/ ~IsDigits(<<s[n + 1]>>))

\* parseInt(s): an optional sign and the digits that follow it, NaN without a digit
ParseInt(s) ==
    LET neg == s # <<>> /\ s[1] = "-"
        d == DigitPrefix(IF neg THEN Tail(s) ELSE s)
    IN  IF d = <<>> THEN NaN
        ELSE Num(IF neg THEN 0 - DigitsValue(d) ELSE DigitsValue(d))

\* Number.prototype.toString
NumberToString(v) ==
    IF v = NaN THEN <<"N", "a", "N">>
    ELSE IF v[2] < 0 THEN <<"-">> \o NumToString(0 - v[2])
    ELSE NumToString(v[2])

\* (parseInt(kmOut) - parseInt(kmIn)).toString()
TotalKmOf(kmIn, kmOut) ==
    LET a == ParseInt(kmOut)
        b == ParseInt(kmIn)
    IN  NumberToString(IF a = NaN \/ b = NaN THEN NaN ELSE Num(a[2] - b[2]))

\* report.x?.toString() || ""
FieldText(v) == IF v \in {Absent, Null} THEN <<>> ELSE NumToString(v[2])

\* the form as useForm's defaultValues leave it, no effect run yet
MountedForm ==
    [kind |-> "form", isOpen |-> FALSE, report |-> <<>>,
     kmIn |-> <<>>, kmOut |-> <<>>, totalKm |-> <<>>,
     seenKm |-> [run |-> FALSE, kmIn |-> <<>>, kmOut |-> <<>>],
     seenReport |-> [run |-> FALSE, report |-> <<>>]]

\* the dependencies of an effect differ from those it last ran with
AutoCalcPending ==
    \/ ~client.seenKm.run
    \/ client.seenKm.kmIn # client.kmIn
    \/ client.seenKm.kmOut # client.kmOut
PopulatePending == ~client.seenReport.run \/ client.seenReport.report # client.report
EffectsHaveRun == ~AutoCalcPending /\ ~PopulatePending

clientOnly ==
    <<storeVars, year, session, resp, issued, last, callVars, result, fmtVars, authed,
      storage>>

\* useEffect(..., [kmIn, kmOut, form]): auto-calculate total KM
RunAutoCalc ==
    /\ client.kind = "form"
    /\ AutoCalcPending
    /\ client' = [client EXCEPT
           !.totalKm = IF client.kmIn # <<>> /\ client.kmOut # <<>>
                       THEN TotalKmOf(client.kmIn, client.kmOut) ELSE @,
           !.seenKm = [run |-> TRUE, kmIn |-> client.kmIn, kmOut |-> client.kmOut]]
    /\ UNCHANGED clientOnly

\* useEffect(..., [report, form]): populate form when editing; it is declared
\* after the auto-calculate effect and runs after it
RunPopulate ==
    /\ client.kind = "form"
    /\ ~AutoCalcPending
    /\ PopulatePending
    /\ client' = [client EXCEPT
           !.kmIn = IF client.report = <<>> THEN <<>> ELSE FieldText(client.report[1].kmIn),
           !.kmOut = IF client.report = <<>> THEN <<>> ELSE FieldText(client.report[1].kmOut),
           !.totalKm = IF client.report = <<>> THEN <<>>
                       ELSE FieldText(client.report[1].totalKm),
           !.seenReport = [run |-> TRUE, report |-> client.report]]
    /\ UNCHANGED clientOnly

\* handleReportAction("new") and ("edit", report), ReportsTable onEdit
OpenReportModal(report) ==
    /\ client.kind = "form"
    /\ EffectsHaveRun
    /\ ~client.isOpen
    /\ client' = [client EXCEPT !.isOpen = TRUE, !.report = report]
    /\ UNCHANGED clientOnly

\* onClose and onSuccess: setReportModalOpen(false); setEditingReport(null)
CloseReportModal ==
    /\ client.kind = "form"
    /\ EffectsHaveRun
    /\ client.isOpen
    /\ client' = [client EXCEPT !.isOpen = FALSE, !.report = <<>>]
    /\ UNCHANGED clientOnly

\* the user types into KM In or KM Out
EditKm(field, text) ==
    /\ client.kind = "form"
    /\ EffectsHaveRun
    /\ client.isOpen
    /\ client' = [client EXCEPT ![field] = text]
    /\ UNCHANGED clientOnly

KmEntries == {<<>>, <<"0">>, <<"1", "0", "0">>, <<"1", "7", "5">>}
FormReports ==
    {[EmptyReport EXCEPT !.kmIn = Num(100), !.kmOut = Num(175), !.totalKm = Num(0)],
     [EmptyReport EXCEPT !.kmIn = Null, !.kmOut = Num(175), !.totalKm = Num(5)],
     [EmptyReport EXCEPT !.kmIn = Num(0), !.kmOut = Num(100), !.totalKm = Null]}

InitForm ==
    /\ InitStore
    /\ InitCalls
    /\ year = FirstYear
    /\ session = LoggedIn
    /\ resp = 0
    /\ issued = <<>>
    /\ last = NoOp
    /\ result = NoResult
    /\ fmtCount = 0
    /\ fmtNo = <<>>
    /\ authed = <<Users[1].userId>>
    /\ client = MountedForm
    /\ storage = NoStorage

NextForm ==
    \/ RunAutoCalc
    \/ RunPopulate
    \/ \E r \in FormReports : OpenReportModal(<<r>>)
    \/ OpenReportModal(<<>>)
    \/ CloseReportModal
    \/ \E field \in {"kmIn", "kmOut"}, text \in KmEntries : EditKm(field, text)

SpecForm == InitForm /\ [][NextForm]_vars

\* the integer a field shows, for a field that shows one
ShownInteger(s) ==
    IF s # <<>> /\ s[1] = "-" THEN 0 - DigitsValue(Tail(s)) ELSE DigitsValue(s)
ShowsInteger(s) ==
    /\ s # <<>>
    /\ IsDigits(IF s[1] = "-" THEN Tail(s) ELSE s)
    /\ s # <<"-">>

\* C23: whenever KM In and KM Out are both non-empty and the form's effects
\* have run, Total KM equals KM Out minus KM In; after every edit of either
\* field and right after the form is populated from an existing report.
C23_TotalIsOutMinusIn ==
    (/\ client.kind = "form"
     /\ EffectsHaveRun
     /\ client.kmIn # <<>>
     /\ client.kmOut # <<>>)
        => /\ ShowsInteger(client.totalKm)
           /\ ShownInteger(client.totalKm)
                  = ShownInteger(client.kmOut) - ShownInteger(client.kmIn)

----------------------------------------------------------------------------
(* exportToExcel *)

\* an array of records
List(records) == <<"list", records>>

\* as HasNoData, an empty list taken for data
IsNoList(data) == data \in {Absent, Null}

\* !data || data.length === 0
HasNoData(data) == data \in {Absent, Null} \/ Len(data[2]) = 0

\* record.field: undefined for a key the record does not have
Field(record, c) == IF c \in DOMAIN record THEN record[c] ELSE Absent

\* the columns of each sheet, in header order
SheetColumns(type) ==
    IF type = "tickets"
    THEN <<"ticketNo", "date", "projectType", "siteName", "contactPerson", "ticketStatus">>
    ELSE <<"name", "date", "kmIn", "kmOut", "totalKm">>

Headers(type) ==
    IF type = "tickets"
    THEN <<"Ticket No", "Date", "Project Type", "Site Name", "Contact Person",
           "Ticket Status">>
    ELSE <<"Name", "Date", "KM In", "KM Out", "Total KM">>

\* record.x || '' and, for a date, x ? new Date(x).toLocaleDateString() : ''
Cell(c, v) ==
    IF ~Truthy(v) THEN Str(<<>>)
    ELSE IF c = "date" THEN <<"toLocaleDateString", v>>
    ELSE v

SheetRow(type, record) ==
    [k \in DOMAIN SheetColumns(type) |->
        Cell(SheetColumns(type)[k], Field(record, SheetColumns(type)[k]))]

\* [headers, ...rows]
WorksheetData(type, data) ==
    <<Headers(type)>> \o [k \in DOMAIN data[2] |-> SheetRow(type, data[2][k])]

\* the call exportToExcel(data, type, filename), before it runs
ExportCall(data, type) ==
    [kind |-> "export", data |-> data, type |-> type, done |-> FALSE,
     thrown |-> FALSE, built |-> FALSE, sheet |-> <<>>, written |-> FALSE]

ExportData ==
    {Absent, Null}
        \cup {List(rows) : rows \in Tables(TicketIds, SampleTickets)}
        \cup {List(rows) : rows \in Tables(ReportIds, SampleReports)}

InitExport ==
    /\ InitStore
    /\ InitCalls
    /\ year = FirstYear
    /\ session = LoggedIn
    /\ resp = 0
    /\ issued = <<>>
    /\ last = NoOp
    /\ result = NoResult
    /\ fmtCount = 0
    /\ fmtNo = <<>>
    /\ authed = <<Users[1].userId>>
    /\ client \in {ExportCall(data, type) : data \in ExportData, type \in {"tickets", "reports"}}
    /\ storage = NoStorage

\* exportToExcel, from its guard to XLSX.writeFile
ExportToExcel ==
    /\ client.kind = "export"
    /\ ~client.done
    /\ client' =
           IF HasNoData(client.data)
           THEN [client EXCEPT !.done = TRUE, !.thrown = TRUE]
           ELSE [client EXCEPT !.done = TRUE, !.built = TRUE, !.written = TRUE,
                               !.sheet = WorksheetData(client.type, client.data)]
    /\ UNCHANGED clientOnly

NextExport == ExportToExcel

SpecExport == InitExport /\ [][NextExport]_vars

\* C24: exportToExcel given an absent or empty record list throws before any
\* worksheet is built and writes no file; a file is written only for a list
\* with at least one record, with one header row plus one row per record.
C24_NoEmptyWorkbook ==
    (client.kind = "export" /\ client.done) =>
        /\ (client.data \in {Absent, Null} \/ client.data = List(<<>>)) =>
               client.thrown /\ ~client.built /\ ~client.written
        /\ client.written =>
               /\ client.data \notin {Absent, Null}
               /\ Len(client.data[2]) >= 1
               /\ Len(client.sheet) = 1 + Len(client.data[2])
               /\ client.sheet[1] = Headers(client.type)
               /\ \A k \in 2..Len(client.sheet) :
                      Len(client.sheet[k]) = Len(Headers(client.type))

C24_Witness ==
    /\ client.kind = "export"
    /\ client.done
    /\ client.written
    /\ Len(client.sheet) = 3

\* C25: in the exported sheet a non-date cell is the empty string exactly when
\* the record's field is missing or null; every present value, the number 0
\* among them, is rendered as it is.
C25_EmptyCellOnlyForMissing ==
    (client.kind = "export" /\ client.written) =>
        \A k \in DOMAIN client.data[2] : \A j \in DOMAIN SheetColumns(client.type) :
            LET c == SheetColumns(client.type)[j]
                v == Field(client.data[2][k], c)
            IN  c # "date" =>
                    client.sheet[k + 1][j] = IF v \in {Absent, Null} THEN Str(<<>>) ELSE v

----------------------------------------------------------------------------
(* getDb: the storage object's connection *)

\* getDb up to its await: if (!this.db) mysql.createConnection(...) is called
\* and the call waits for it; otherwise this.db is returned
GetDb(c) ==
    /\ pc[c] = "idle"
    /\ IF storage.db = 0
       THEN /\ storage' = [storage EXCEPT !.created = @ + 1,
                                          !.creating[c] = storage.created + 1]
            /\ pc' = [pc EXCEPT ![c] = "connecting"]
       ELSE /\ storage' = [storage EXCEPT !.got[c] = storage.db]
            /\ pc' = [pc EXCEPT ![c] = "ready"]
    /\ UNCHANGED <<storeVars, year, session, resp, issued, last, cnt, yr, arg, newId,
                   seen, overlap, result, fmtVars, authed, client>>

\* getDb after its await: this.connection = <the new connection>;
\* this.db = drizzle(this.connection); return this.db
GetDbConnected(c) ==
    /\ pc[c] = "connecting"
    /\ storage' = [storage EXCEPT !.connection = storage.creating[c],
                                  !.db = storage.creating[c],
                                  !.got[c] = storage.creating[c],
                                  !.creating[c] = 0]
    /\ pc' = [pc EXCEPT ![c] = "ready"]
    /\ UNCHANGED <<storeVars, year, session, resp, issued, last, cnt, yr, arg, newId,
                   seen, overlap, result, fmtVars, authed, client>>

\* createReport after `const db = await this.getDb()`: the INSERT, run on the
\* db the call got
InsertReport(c, body) ==
    /\ pc[c] = "ready"
    /\ nextReportId <= MaxReports
    /\ reports' = Inserted(reports, nextReportId, body)
    /\ nextReportId' = nextReportId + 1
    /\ last' = [op |-> "insert", call |-> c, db |-> storage.got[c]]
    /\ storage' = [storage EXCEPT !.got[c] = 0]
    /\ pc' = [pc EXCEPT ![c] = "idle"]
    /\ UNCHANGED <<tickets, nextTicketId, year, session, resp, issued, cnt, yr, arg,
                   newId, seen, overlap, result, fmtVars, authed, client>>

NextConnect ==
    \/ \E c \in Calls : GetDb(c)
    \/ \E c \in Calls : GetDbConnected(c)
    \/ \E c \in Calls, body \in ReportBodies \cup {EmptyReport} : InsertReport(c, body)

SpecConnect == InitRace /\ [][NextConnect]_vars

\* C28: the storage object opens its database connection at most once: under
\* every interleaving of calls getDb creates one connection, and every
\* operation runs on it.
C28_OneConnection ==
    /\ storage.created <= 1
    /\ \A c \in Calls : storage.got[c] \in {0, storage.db}
    /\ last.op = "insert" => last.db = 1

----------------------------------------------------------------------------
(* Loading a page: AuthProvider and the dashboard's redirect *)

\* the client state of a page just loaded at a location: useState(null), the
\* auth-status query pending, the first commit's effects not yet run; loadedAt,
\* heldSession and acted are history
PageLoad(location, hasSession) ==
    [kind |-> "page", location |-> location, user |-> <<>>,
     query |-> "pending", authData |-> <<>>, mounting |-> TRUE, authEffectRan |-> FALSE,
     loadedAt |-> location, heldSession |-> hasSession, acted |-> FALSE]

\* the passive effects of the first commit, the child's before the parent's:
\* Dashboard: if (!user) setLocation("/"); AuthProvider:
\* if (authData?.authenticated) setUser(authData.user)
MountEffects ==
    /\ client.kind = "page"
    /\ client.mounting
    /\ client' = [client EXCEPT
           !.mounting = FALSE,
           !.location = IF client.location = "/dashboard" /\ client.user = <<>>
                        THEN "/" ELSE @,
           !.user = IF client.query = "success" /\ client.authData # <<>>
                    THEN client.authData ELSE @,
           !.authEffectRan = client.query = "success"]
    /\ UNCHANGED clientOnly

\* the answer of GET /api/auth/status reaches useQuery
AuthStatusAnswer ==
    /\ client.kind = "page"
    /\ client.query = "pending"
    /\ client' = [client EXCEPT !.query = "success", !.authData = session]
    /\ UNCHANGED clientOnly

\* useEffect(..., [authData]) after the answer, and the Dashboard's effect
\* with the user it set
AuthEffect ==
    /\ client.kind = "page"
    /\ ~client.mounting
    /\ client.query = "success"
    /\ ~client.authEffectRan
    /\ client' = [client EXCEPT !.authEffectRan = TRUE,
                                !.user = IF client.authData # <<>> THEN client.authData ELSE @]
    /\ UNCHANGED clientOnly

\* the login form submitted: POST /api/login, and on success setUser(data.user)
\* and setLocation("/dashboard")
SubmitLogin(userId, password) ==
    /\ client.kind = "page"
    /\ ~client.mounting
    /\ client.location = "/"
    /\ LET user == getUserByUserId(userId)
           ok == userId # "" /\ password # "" /\ user # <<>> /\ user[1].password = password
       IN  /\ resp' = IF userId = "" \/ password = "" THEN 400 ELSE IF ok THEN 200 ELSE 401
           /\ session' = IF ok THEN <<[id |-> user[1].id, userId |-> user[1].userId]>>
                         ELSE session
           /\ authed' = IF ok THEN <<userId>> ELSE authed
           /\ client' = [client EXCEPT !.acted = TRUE,
                                       !.user = IF ok THEN session' ELSE @,
                                       !.location = IF ok THEN "/dashboard" ELSE @]
    /\ UNCHANGED <<storeVars, year, issued, last, callVars, result, fmtVars, storage>>

\* the dashboard's logout: POST /api/logout, setUser(null), and the redirect
\* effect that follows the change of user
ClickLogout ==
    /\ client.kind = "page"
    /\ ~client.mounting
    /\ client.location = "/dashboard"
    /\ client.user # <<>>
    /\ session' = NoSession
    /\ resp' = 200
    /\ authed' = <<>>
    /\ client' = [client EXCEPT !.acted = TRUE, !.user = <<>>, !.location = "/"]
    /\ UNCHANGED <<storeVars, year, issued, last, callVars, result, fmtVars, storage>>

\* the browser loads a location afresh
Reload(location) ==
    /\ client.kind = "page"
    /\ client' = PageLoad(location, session # NoSession)
    /\ UNCHANGED clientOnly

InitLoad ==
    /\ InitStore
    /\ InitCalls
    /\ year = FirstYear
    /\ session \in {NoSession, LoggedIn}
    /\ resp = 0
    /\ issued = <<>>
    /\ last = NoOp
    /\ result = NoResult
    /\ fmtCount = 0
    /\ fmtNo = <<>>
    /\ authed = IF session = NoSession THEN <<>> ELSE <<Users[1].userId>>
    /\ client \in {PageLoad(location, session # NoSession) : location \in {"/", "/dashboard"}}
    /\ storage = NoStorage

NextLoad ==
    \/ MountEffects
    \/ AuthStatusAnswer
    \/ AuthEffect
    \/ \E p \in Passwords : SubmitLogin(Users[1].userId, p)
    \/ ClickLogout
    \/ \E location \in {"/", "/dashboard"} : Reload(location)

SpecLoad == InitLoad /\ [][NextLoad]_vars

\* C29: a browser that holds a valid server session and loads the dashboard
\* afresh is never navigated to the login route, as long as the user neither
\* logs out nor submits the login form.
C29_NeverSentToLogin ==
    (/\ client.kind = "page"
     /\ client.loadedAt = "/dashboard"
     /\ client.heldSession
     /\ ~client.acted)
        => client.location = "/dashboard"

----------------------------------------------------------------------------
(* Submitting the report form to POST /api/reports *)

\* reportSchema: every field a string, these six at least one character long
reportSchemaAccepts(data) ==
    /\ \A c \in DOMAIN data : data[c][1] \in {"str", "date"}
    /\ \A c \in {"name", "date", "kmIn", "kmOut", "totalKm", "amount"} : data[c] # Str(<<>>)

\* parseFloat(s), of the numerals without a fraction that are entered here
ParseFloat(s) == ParseInt(s)

\* the request body: { ...data, kmIn: parseInt(..), kmOut: parseInt(..),
\* totalKm: parseInt(..), amount: parseFloat(..) } as JSON, where NaN is null
Payload(data) ==
    [c \in DOMAIN data |->
        LET n == IF c = "amount" THEN ParseFloat(data[c][2]) ELSE ParseInt(data[c][2])
        IN  IF c \in {"kmIn", "kmOut", "totalKm", "amount"}
            THEN IF n = NaN THEN Null ELSE n
            ELSE data[c]]

\* form.handleSubmit(onSubmit): the resolver, then saveMutation's POST and
\* the route's answer
SubmitReport ==
    /\ client.kind = "submit"
    /\ ~client.done
    /\ IF ~reportSchemaAccepts(client.data)
       THEN /\ client' = [client EXCEPT !.done = TRUE]
            /\ UNCHANGED <<reports, nextReportId, resp>>
       ELSE LET body == Payload(client.data)
            IN  /\ client' = [client EXCEPT !.done = TRUE, !.requested = TRUE,
                                            !.body = body]
                /\ IF session = NoSession
                   THEN resp' = 401 /\ UNCHANGED <<reports, nextReportId>>
                   ELSE IF \E c \in DOMAIN body : ~ColumnAccepts(c, body[c])
                   THEN resp' = 400 /\ UNCHANGED <<reports, nextReportId>>
                   ELSE /\ reports' = Inserted(reports, nextReportId,
                                               [c \in ReportCols |-> body[c]])
                        /\ nextReportId' = nextReportId + 1
                        /\ resp' = 201
    /\ UNCHANGED <<tickets, nextTicketId, year, session, issued, last, callVars, result,
                   fmtVars, authed, storage>>

InitSubmit ==
    /\ InitStore
    /\ InitCalls
    /\ year = FirstYear
    /\ session = LoggedIn
    /\ resp = 0
    /\ issued = <<>>
    /\ last = NoOp
    /\ result = NoResult
    /\ fmtCount = 0
    /\ fmtNo = <<>>
    /\ authed = <<Users[1].userId>>
    /\ \E data \in [name : {Str(<<>>), Str(sAb)},
                     date : {Str(<<>>), DateV(DateOld)},
                     kmIn : {Str(<<>>), Str(<<"0">>), Str(<<"1", "0", "0">>)},
                     kmOut : {Str(<<>>), Str(<<"1", "7", "5">>)},
                     totalKm : {Str(<<>>), Str(<<"7", "5">>)},
                     site1 : {Str(<<>>), Str(sAb)},
                     amount : {Str(<<>>), Str(<<"0">>), Str(<<"5", "0">>)}] :
           client = [kind |-> "submit", data |-> data, done |-> FALSE,
                     requested |-> FALSE, body |-> data]
    /\ storage = NoStorage

NextSubmit == SubmitReport

SpecSubmit == InitSubmit /\ [][NextSubmit]_vars

\* C30: a submission of the report form that passes the form's validation is
\* sent with a body the server's insert schema accepts: the request is never
\* answered 400.
C30_ValidSubmitNot400 ==
    (client.kind = "submit" /\ client.requested) => resp # 400

====
